---- MODULE Spec2Model ----
(***************************************************************************)
(* Ingestion and lifecycle engine of ed-jobs-scraper.                      *)
(*                                                                         *)
(*   backend/app/scrapers/base.py      BaseScraper.run, _save_posting,     *)
(*                                     detect_removals                     *)
(*   backend/app/tasks/scrape_tasks.py dispatch_due_scrapes, scrape_source *)
(*   backend/app/scrapers/*.py         the adapters' scrape()              *)
(*   backend/app/api/v1/sources.py     trigger_scrape                      *)
(*   backend/app/tasks/maintenance_tasks.py  mark_stale_postings           *)
(*   backend/app/models/*.py           JobPosting, ScrapeRun, ScrapeSource *)
(*                                                                         *)
(* The specifications share the same store and the same actions:           *)
(*   Spec         the program as wired by scrape_tasks.py: the scheduler,  *)
(*                the worker pool and the cycles of scrape_source;         *)
(*   SpecScraper  BaseScraper driven through its public interface by two   *)
(*                concurrent scrapers, each built for a Run with or        *)
(*                without a run_id (run, _save_posting, detect_removals);  *)
(*   SpecSave     one scraper and one URL, with observations drawn from    *)
(*                the full product of the field domains.                   *)
(*   SpecSched    Spec from every choice of active and inactive Sources,   *)
(*                with fetches that time out and workers that are lost;    *)
(*   SpecAdapters the cycles of Sources of every registered platform       *)
(*                against upstreams that are reachable or not;             *)
(*   SpecApi      the scheduler and the cycles with manual triggers;       *)
(*   SpecScenario the cycles of one Source on one worker, one after the    *)
(*                other, over a site whose listings come and go;           *)
(*   SpecRemoval  one scraper whose listings may fail to normalize,        *)
(*                followed by its removal pass;                            *)
(*   SpecLifecycle  scrapers, their removal passes and the stale sweep     *)
(*                of maintenance_tasks.py;                                 *)
(*   SpecSchedFair  SpecSched with workers that go on executing the task   *)
(*                they have taken;                                         *)
(*   SpecOperator the scheduler, the manual trigger and the cycles with    *)
(*                an operator who deactivates Sources.                     *)
(***************************************************************************)
EXTENDS Integers, Sequences, FiniteSets, TLC

VARIABLES now, sources, runs, postings, queue, workers, response

vars == <<now, sources, runs, postings, queue, workers, response>>

-----------------------------------------------------------------------------
(* Bounds of the model.                                                    *)

MaxTime == 1
MaxRuns == 2
MaxQueue == 1

(* None of a nullable integer column or argument.                          *)
NoRun == 0
NoTime == -1
NoMsg == -1

(* None of a nullable text column or of an optional key of normalize().    *)
NULL == "NULL"

Sources == {"s1", "s2"}
Workers == {1, 2}

(* The registered adapters the model tells apart, and the platforms of the *)
(* Sources: s1 has a registered adapter, s2's platform is one nobody       *)
(* registered.                                                             *)
Registry == {"applitrack", "smartrecruiters", "ttcportals"}
Platform == [s \in Sources |-> IF s = "s1" THEN "applitrack" ELSE "unknown"]

(* scrape_frequency_minutes of the Sources, in ticks of the clock.          *)
Frequency == 1

(* str(e)[:2000]; the length of the ValueError of a missing adapter and    *)
(* the lengths of the messages an exception of scrape() can carry.         *)
ErrLimit == 2000
NoAdapterLen == 40
ErrLens == {2500}

(* The length of str(SoftTimeLimitExceeded()), the exception the worker    *)
(* raises in the task at task_soft_time_limit.                             *)
TimeoutLen == 23

(* The statuses of a Run besides "running".                                *)
Terminal == {"success", "failed", "timeout"}

Min(a, b) == IF a < b THEN a ELSE b

-----------------------------------------------------------------------------
(* Hashes.  sha256 is taken to be injective: the digest is modelled by the *)
(* string it is computed from.                                             *)

HashUrl(url) == <<"sha256", url>>

(* f"{title}|{description or ''}": a missing description and an empty one  *)
(* hash alike.                                                             *)
HashContent(title, description) ==
    <<"sha256", title, "|", IF description = NULL THEN "" ELSE description>>

-----------------------------------------------------------------------------
(* Normalized listings.  location stands for every column that the         *)
(* content-changed path overwrites and the backfill leaves alone           *)
(* (location, city, state, category, department, employment_type,          *)
(* salary_min, salary_max, salary_text, closing_date, requirements).       *)

DataKeys == {"title", "description", "location", "campus", "raw_category", "posting_date"}

MkData(u, t, d, l, c, r, p) ==
    [application_url |-> u, title |-> t, description |-> d, location |-> l,
     campus |-> c, raw_category |-> r, posting_date |-> p]

NoData == MkData(NULL, NULL, NULL, NULL, NULL, NULL, NULL)

(* The observations of SpecSave: one URL, every combination of fields.     *)
RichData ==
    { MkData("uA", t, d, l, c, r, p) :
        t \in {"T1", "T2"}, d \in {NULL, "", "D1"}, l \in {NULL, "L1"},
        c \in {NULL, "C1"}, r \in {NULL, "R1"}, p \in {NULL, "P1", "P2"} }

(* The listings the upstream sites of Spec and SpecScraper serve.          *)
ListingA1 == MkData("uA", "T1", "D1", "L1", NULL, NULL, NULL)
ListingA2 == MkData("uA", "T1", "D2", NULL, "C1", NULL, "P1")

(* A second URL of the site of s1, and the same URL with changed content.  *)
ListingB1 == MkData("uB", "T2", "D1", NULL, NULL, NULL, NULL)
ListingB2 == MkData("uB", "T2", "D2", NULL, NULL, NULL, NULL)

(* What the site of s1 lists from cycle to cycle when a listing            *)
(* disappears and comes back changed.                                      *)
ScenarioResults ==
    { <<ListingA1, ListingB1>>, <<ListingA1>>, <<ListingA1, ListingB2>> }

(* A site of s1 that lists the same two listings in every cycle.           *)
RemovalFetch == <<ListingA1, ListingB1>>

(* What one scrape() can return.                                           *)
FetchResults == { <<>>, <<ListingA1>>, <<ListingA2>> }

(* What the scrape() of the scrapers of SpecScraper can return: the site   *)
(* of s1 lists the URL twice on one page, the site of s2 lists it once.    *)
ScraperResults ==
    [s \in Sources |-> IF s = "s1"
                         THEN { <<>>, <<ListingA1, ListingA1>>, <<ListingA1, ListingA2>> }
                         ELSE { <<>>, <<ListingA1>> }]

-----------------------------------------------------------------------------
(* JobPosting rows.                                                        *)

NoRow ==
    [source_id |-> NULL, url_hash |-> <<>>, content_hash |-> <<>>,
     title |-> NULL, description |-> NULL, location |-> NULL, campus |-> NULL,
     raw_category |-> NULL, posting_date |-> NULL,
     geocode_status |-> NULL, geocode_source |-> NULL,
     first_seen_at |-> NoTime, last_seen_at |-> NoTime, is_active |-> FALSE,
     last_seen_run_id |-> NoRun, removal_detected_at |-> NoTime,
     reactivation_count |-> 0]

PostingFields == DOMAIN NoRow

(* The JobPosting(...) constructor call of the insert branch.              *)
NewPosting(src, data, t, run_id) ==
    [source_id |-> src,
     url_hash |-> HashUrl(data.application_url),
     content_hash |-> HashContent(data.title, data.description),
     title |-> data.title, description |-> data.description,
     location |-> data.location, campus |-> data.campus,
     raw_category |-> data.raw_category, posting_date |-> data.posting_date,
     geocode_status |-> "pending", geocode_source |-> NULL,
     first_seen_at |-> t, last_seen_at |-> t, is_active |-> TRUE,
     last_seen_run_id |-> run_id, removal_detected_at |-> NoTime,
     reactivation_count |-> 0]

(* existing.last_seen_at = now; if self.run_id: existing.last_seen_run_id  *)
Touch(e, t, run_id) ==
    [e EXCEPT !.last_seen_at = t,
              !.last_seen_run_id = IF run_id # NoRun THEN run_id ELSE @]

Reactivate_Uncounted(e) ==
    IF ~e.is_active THEN [e EXCEPT !.removal_detected_at = NoTime] ELSE e

(* was_inactive: count the reactivation and clear the removal time.        *)
Reactivate(e) ==
    IF ~e.is_active
    THEN [e EXCEPT !.reactivation_count = @ + 1, !.removal_detected_at = NoTime]
    ELSE e

ContentChanged(e, data) ==
    e.content_hash # HashContent(data.title, data.description)

(* The keys of the content-changed loop, as far as the model has them.     *)
UpdateKeys == {"title", "location", "campus", "raw_category", "description"}

OverwriteFields(e, data) ==
    [f \in PostingFields |->
        IF f \in UpdateKeys /\ data[f] # NULL THEN data[f] ELSE e[f]]

UpdateChanged(e, data) ==
    [OverwriteFields(e, data) EXCEPT
        !.content_hash = HashContent(data.title, data.description),
        !.is_active = TRUE]

BackfillKeys_NoDate == {"campus", "raw_category"}

BackfillKeys == {"campus", "raw_category", "posting_date"}

BackfillField_Overwrite(e, data, f) ==
    IF data[f] # NULL THEN data[f] ELSE e[f]

BackfillField(e, data, f) ==
    IF data[f] # NULL /\ e[f] = NULL THEN data[f] ELSE e[f]

BackfillFields(e, data) ==
    [f \in PostingFields |->
        IF f \in BackfillKeys THEN BackfillField(e, data, f) ELSE e[f]]

Truthy(s) == s # NULL /\ s # ""

UpdateUnchanged_AlwaysRegeocode(e, data) ==
    LET b == BackfillFields(e, data)
        g == IF Truthy(b.campus) /\ b.geocode_status # "pending"
             THEN [b EXCEPT !.geocode_status = "pending", !.geocode_source = NULL]
             ELSE b
    IN  [g EXCEPT !.is_active = TRUE]

UpdateUnchanged(e, data) ==
    LET b == BackfillFields(e, data)
        changed == \E f \in BackfillKeys : b[f] # e[f]
        g == IF changed /\ Truthy(b.campus) /\ b.geocode_status # "pending"
             THEN [b EXCEPT !.geocode_status = "pending", !.geocode_source = NULL]
             ELSE b
    IN  [g EXCEPT !.is_active = TRUE]

(* The `if existing:` branch of _save_posting, on the loaded object.       *)
SaveExisting(e, data, t, run_id) ==
    LET e1 == Reactivate(Touch(e, t, run_id))
    IN  IF ContentChanged(e, data) THEN UpdateChanged(e1, data)
        ELSE UpdateUnchanged(e1, data)

SaveResult(e, data) == IF ContentChanged(e, data) THEN "updated" ELSE "existing"

(* The unit of work writes the attributes whose value differs from the one *)
(* loaded; a timestamp taken from the clock always differs.                *)
Flush(cur, loaded, new) ==
    [f \in PostingFields |->
        IF f = "last_seen_at" \/ new[f] # loaded[f] THEN new[f] ELSE cur[f]]

RowIds == 1..Len(postings)

(* db.query(JobPosting).filter(url_hash == h).first()                      *)
FindByHash(h) ==
    IF \E i \in RowIds : postings[i].url_hash = h
    THEN CHOOSE i \in RowIds : postings[i].url_hash = h
    ELSE 0

-----------------------------------------------------------------------------
(* ScrapeSource and ScrapeRun rows, and the workers' sessions.             *)

NewSource(p) ==
    [platform |-> p, is_active |-> TRUE, last_scraped_at |-> NoTime,
     last_success_at |-> NoTime, last_job_count |-> 0, consecutive_failures |-> 0]

(* ScrapeRun(id, source_id, started_at, status="running") with the column  *)
(* defaults; error_message is modelled by its length.                      *)
NewRun(s, t) ==
    [source_id |-> s, started_at |-> t, finished_at |-> NoTime,
     status |-> "running", jobs_found |-> 0, jobs_new |-> 0,
     jobs_updated |-> 0, jobs_removed |-> 0, error_message |-> NoMsg]

(* The ScrapeSource attributes a session holds and later compares or      *)
(* increments; Expired once a commit of the session has expired them.      *)
Expired == [last_job_count |-> NoMsg, consecutive_failures |-> NoMsg]

Held(s) ==
    [last_job_count |-> sources[s].last_job_count,
     consecutive_failures |-> sources[s].consecutive_failures]

(* A worker: where it is in scrape_source / BaseScraper.run, the scraper's *)
(* source and run_id, the listings still to process, the listing and the   *)
(* row loaded by the _save_posting in progress, the counters of run(), and *)
(* the ScrapeSource attributes held by its session.                        *)
IdleWorker ==
    [pc |-> "idle", source |-> NULL, run |-> NoRun, run_id |-> NoRun,
     raw |-> <<>>, data |-> NoData, loaded |-> 0, snap |-> NoRow,
     jobs_found |-> 0, jobs_new |-> 0, jobs_updated |-> 0, src |-> Expired]

(* The answer of the API to the last manual trigger: none so far.         *)
NoResponse == [status_code |-> 0, task_id |-> NULL, source_id |-> NULL]

Init ==
    /\ now = 0
    /\ sources = [s \in Sources |-> NewSource(Platform[s])]
    /\ runs = <<>>
    /\ postings = <<>>
    /\ queue = [s \in Sources |-> 0]
    /\ workers = [w \in Workers |-> IdleWorker]
    /\ response = NoResponse

(* The clock.  A tick is long against one _save_posting, whose SELECT and  *)
(* commit fall into the same tick.                                         *)
Tick ==
    /\ now < MaxTime
    /\ \A w \in Workers : workers[w].pc # "save"
    /\ now' = now + 1
    /\ UNCHANGED <<sources, runs, postings, queue, workers, response>>

-----------------------------------------------------------------------------
(* dispatch_due_scrapes                                                    *)

Due_Always(s) == TRUE

Due(s) ==
    \/ sources[s].last_scraped_at = NoTime
    \/ now >= sources[s].last_scraped_at + Frequency

ToDispatch == {s \in Sources : sources[s].is_active /\ Due(s)}

(* scrape_source.delay(id) for every due active Source.  queue[s] counts   *)
(* the waiting tasks of Source s up to MaxQueue: a task sent beyond that   *)
(* is one that stays in the queue for as long as the model runs.           *)
DispatchDueScrapes ==
    /\ ToDispatch # {}
    /\ queue' = [s \in Sources |->
          IF s \in ToDispatch /\ queue[s] < MaxQueue THEN queue[s] + 1 ELSE queue[s]]
    /\ UNCHANGED <<now, sources, runs, postings, workers, response>>

-----------------------------------------------------------------------------
(* trigger_scrape (POST /sources/{source_id}/scrape)                       *)

(* The ids a request can carry: those of the Sources and one of no row.    *)
SourceIds == Sources \cup {"s0"}

(* HTTPException(status_code, detail), and ManualScrapeResponse with the   *)
(* id of the task sent; task ids are not told apart.                       *)
HTTPException(code) == [status_code |-> code, task_id |-> NULL, source_id |-> NULL]

ManualScrapeResponse(id) == [status_code |-> 200, task_id |-> "task", source_id |-> id]

TriggerScrape_IgnoringActive(id) ==
    IF id \notin Sources
    THEN /\ response' = HTTPException(404)
         /\ UNCHANGED <<now, sources, runs, postings, queue, workers>>
    ELSE /\ queue' = [queue EXCEPT ![id] = IF @ < MaxQueue THEN @ + 1 ELSE @]
         /\ response' = ManualScrapeResponse(id)
         /\ UNCHANGED <<now, sources, runs, postings, workers>>

(* 404 without a row, 400 for an inactive Source, else                     *)
(* scrape_source.delay(id), whether the Source is due or not.  A task sent *)
(* beyond MaxQueue is one that stays in the queue, as in the scan.         *)
TriggerScrape(id) ==
    IF id \notin Sources
    THEN /\ response' = HTTPException(404)
         /\ UNCHANGED <<now, sources, runs, postings, queue, workers>>
    ELSE IF ~sources[id].is_active
    THEN /\ response' = HTTPException(400)
         /\ UNCHANGED <<now, sources, runs, postings, queue, workers>>
    ELSE /\ queue' = [queue EXCEPT ![id] = IF @ < MaxQueue THEN @ + 1 ELSE @]
         /\ response' = ManualScrapeResponse(id)
         /\ UNCHANGED <<now, sources, runs, postings, workers>>

-----------------------------------------------------------------------------
(* scrape_source                                                           *)

(* The pool hands a task to any idle worker: the first one, the workers    *)
(* being alike.                                                            *)
Free(w) ==
    /\ workers[w].pc = "idle"
    /\ \A v \in Workers : workers[v].pc = "idle" => v >= w

(* A worker takes the task of Source s, creates the Run and commits it;    *)
(* the scraper is built without a run_id.                                  *)
ScrapeSourceStart(w, s) ==
    /\ Free(w)
    /\ queue[s] > 0
    /\ Len(runs) < MaxRuns
    /\ queue' = [queue EXCEPT ![s] = @ - 1]
    /\ runs' = Append(runs, NewRun(s, now))
    /\ workers' = [workers EXCEPT ![w] =
          [IdleWorker EXCEPT !.pc = "fetch", !.source = s, !.run = Len(runs) + 1,
                             !.run_id = NoRun, !.src = Held(s)]]
    /\ UNCHANGED <<now, sources, postings, response>>

FinalizeFailed_WithRemovals(w, len) ==
    LET wk == workers[w] IN
    /\ runs' = [runs EXCEPT ![wk.run] =
          [@ EXCEPT !.status = "failed", !.finished_at = now,
                    !.error_message = Min(len, ErrLimit)]]
    /\ sources' = [sources EXCEPT ![wk.source] =
          [@ EXCEPT !.last_scraped_at = now,
                    !.consecutive_failures = wk.src.consecutive_failures + 1]]
    /\ postings' = [i \in RowIds |->
          IF postings[i].source_id = wk.source /\ postings[i].is_active
          THEN [postings[i] EXCEPT !.is_active = FALSE, !.removal_detected_at = now]
          ELSE postings[i]]
    /\ workers' = [workers EXCEPT ![w] = IdleWorker]
    /\ UNCHANGED <<now, queue, response>>

FinalizeFailed_Deactivating(w, len) ==
    LET wk == workers[w] IN
    /\ runs' = [runs EXCEPT ![wk.run] =
          [@ EXCEPT !.status = "failed", !.finished_at = now,
                    !.error_message = Min(len, ErrLimit)]]
    /\ sources' = [sources EXCEPT ![wk.source] =
          [@ EXCEPT !.last_scraped_at = now,
                    !.consecutive_failures = wk.src.consecutive_failures + 1,
                    !.is_active = FALSE]]
    /\ workers' = [workers EXCEPT ![w] = IdleWorker]
    /\ UNCHANGED <<now, postings, queue, response>>

(* The except branch: the Run is failed, the Source's streak grows by one  *)
(* from the value the session loaded.                                      *)
FinalizeFailed(w, len) ==
    LET wk == workers[w] IN
    /\ runs' = [runs EXCEPT ![wk.run] =
          [@ EXCEPT !.status = "failed", !.finished_at = now,
                    !.error_message = Min(len, ErrLimit)]]
    /\ sources' = [sources EXCEPT ![wk.source] =
          [@ EXCEPT !.last_scraped_at = now,
                    !.consecutive_failures = wk.src.consecutive_failures + 1]]
    /\ workers' = [workers EXCEPT ![w] = IdleWorker]
    /\ UNCHANGED <<now, postings, queue, response>>

(* get_scraper_class returns None: ValueError.                             *)
NoAdapter(w) ==
    /\ workers[w].pc = "fetch"
    /\ sources[workers[w].source].platform \notin Registry
    /\ FinalizeFailed(w, NoAdapterLen)

(* scrape() raises.                                                        *)
ScrapeRaises(w, len) ==
    /\ workers[w].pc = "fetch"
    /\ sources[workers[w].source].platform \in Registry
    /\ FinalizeFailed(w, len)

(* The fetch of scrape() times out, or the soft time limit is reached      *)
(* while scrape() runs: an exception like any other, caught by the except  *)
(* branch of scrape_source.                                                *)
ScrapeTimesOut(w) ==
    /\ workers[w].pc = "fetch"
    /\ sources[workers[w].source].platform \in Registry
    /\ FinalizeFailed(w, TimeoutLen)

(* What the upstream of an adapter holds: two pages of one listing each    *)
(* for an adapter that pages, one document with both for the others.       *)
UpstreamListings == <<ListingA1, ListingA2>>

(* The ways an upstream is unreachable or blocked, by adapter: an HTTP      *)
(* error status or a timeout of the (first) request, an error of a later   *)
(* page request, a browser that fails, an anti-bot challenge that stays    *)
(* unresolved.                                                             *)
Faults ==
    [applitrack      |-> {"http_error", "timeout"},
     smartrecruiters |-> {"http_error", "timeout", "error_on_next_page"},
     ttcportals      |-> {"timeout", "browser_failure", "challenge"}]

AllFaults == UNION {Faults[p] : p \in DOMAIN Faults}

(* scrape() of the adapter of platform p against an upstream in state up.  *)
(* ApplitrackScraper lets the httpx exception and raise_for_status()       *)
(* through.  SmartRecruitersScraper catches httpx.HTTPError inside its     *)
(* paging loop, breaks and returns the pages it has.  TtcPortalsScraper    *)
(* returns [] for an unresolved challenge and for any exception.           *)
Scrape(p, up) ==
    IF up = "ok" THEN [raises |-> FALSE, listings |-> UpstreamListings]
    ELSE IF p = "applitrack" THEN [raises |-> TRUE, listings |-> <<>>]
    ELSE IF p = "smartrecruiters" THEN
        [raises |-> FALSE,
         listings |-> IF up = "error_on_next_page"
                      THEN SubSeq(UpstreamListings, 1, 1) ELSE <<>>]
    ELSE [raises |-> FALSE, listings |-> <<>>]

(* run() calls scrape() of the Source's adapter: an exception ends the     *)
(* cycle in the except branch of scrape_source, a returned list is what    *)
(* the loop of run() processes.                                            *)
AdapterScrape(w, up) ==
    LET wk  == workers[w]
        p   == sources[wk.source].platform
        out == Scrape(p, up)
    IN
    /\ wk.pc = "fetch"
    /\ p \in Registry
    /\ up \in {"ok"} \cup Faults[p]
    /\ IF out.raises
       THEN \E len \in ErrLens : FinalizeFailed(w, len)
       ELSE /\ workers' = [workers EXCEPT ![w] =
                  [@ EXCEPT !.pc = "loop", !.raw = out.listings,
                            !.jobs_found = Len(out.listings)]]
            /\ UNCHANGED <<now, sources, runs, postings, queue, response>>

(* scrape() returns the raw listings.                                      *)
ScrapeReturns(w, listings) ==
    /\ workers[w].pc = "fetch"
    /\ sources[workers[w].source].platform \in Registry
    /\ workers' = [workers EXCEPT ![w] =
          [@ EXCEPT !.pc = "loop", !.raw = listings, !.jobs_found = Len(listings)]]
    /\ UNCHANGED <<now, sources, runs, postings, queue, response>>

-----------------------------------------------------------------------------
(* BaseScraper.run: the loop over the raw listings.                        *)

(* normalize() raises: the listing is logged and skipped.  The log line   *)
(* reads source.slug, which reloads a Source expired by an earlier commit. *)
NormalizeRaises(w) ==
    /\ workers[w].pc = "loop"
    /\ workers[w].raw # <<>>
    /\ workers' = [workers EXCEPT ![w] =
          [@ EXCEPT !.raw = Tail(@),
                    !.src = IF @ = Expired THEN Held(workers[w].source) ELSE @]]
    /\ UNCHANGED <<now, sources, runs, postings, queue, response>>

(* _save_posting up to and including the SELECT by url_hash.               *)
SaveQuery(w) ==
    LET wk == workers[w]
        d  == Head(wk.raw)
        i  == FindByHash(HashUrl(d.application_url))
    IN
    /\ wk.pc = "loop"
    /\ wk.raw # <<>>
    /\ workers' = [workers EXCEPT ![w] =
          [@ EXCEPT !.pc = "save", !.data = d, !.loaded = i,
                    !.snap = IF i = 0 THEN NoRow ELSE postings[i]]]
    /\ UNCHANGED <<now, sources, runs, postings, queue, response>>

(* The worker after a _save_posting that returned `result`.                *)
AfterSave(wk, result) ==
    [wk EXCEPT !.pc = "loop", !.raw = Tail(@), !.data = NoData, !.loaded = 0,
               !.snap = NoRow, !.src = Expired,
               !.jobs_new = IF result = "new" THEN @ + 1 ELSE @,
               !.jobs_updated = IF result = "updated" THEN @ + 1 ELSE @]

(* The row was found: the changes to the loaded object are committed.      *)
SaveCommitExisting(w) ==
    LET wk  == workers[w]
        new == SaveExisting(wk.snap, wk.data, now, wk.run_id)
    IN
    /\ wk.pc = "save"
    /\ wk.loaded # 0
    /\ postings' = [postings EXCEPT ![wk.loaded] = Flush(@, wk.snap, new)]
    /\ workers' = [workers EXCEPT ![w] = AfterSave(wk, SaveResult(wk.snap, wk.data))]
    /\ UNCHANGED <<now, sources, runs, queue, response>>

UniqueViolation_NoIndex(h) == FALSE

(* The unique index on url_hash.                                           *)
UniqueViolation(h) == \E i \in RowIds : postings[i].url_hash = h

(* No row was found and the INSERT is accepted.                            *)
SaveCommitNew(w) ==
    LET wk == workers[w] IN
    /\ wk.pc = "save"
    /\ wk.loaded = 0
    /\ ~UniqueViolation(HashUrl(wk.data.application_url))
    /\ postings' = Append(postings, NewPosting(wk.source, wk.data, now, wk.run_id))
    /\ workers' = [workers EXCEPT ![w] = AfterSave(wk, "new")]
    /\ UNCHANGED <<now, sources, runs, queue, response>>

(* No row was found but another session inserted the url_hash meanwhile:   *)
(* the commit raises IntegrityError and leaves the session's transaction   *)
(* rolled back; nobody calls rollback(), so the next statement on the      *)
(* session (the log line of run() reading source.slug) raises again, out   *)
(* of run() and out of the except branch of scrape_source.  The Run stays  *)
(* as it was created.                                                      *)
SaveCommitConflict(w) ==
    LET wk == workers[w] IN
    /\ wk.pc = "save"
    /\ wk.loaded = 0
    /\ UniqueViolation(HashUrl(wk.data.application_url))
    /\ workers' = [workers EXCEPT ![w] = IdleWorker]
    /\ UNCHANGED <<now, sources, runs, postings, queue, response>>

FinalizeSuccess_Restamping(w) ==
    LET wk == workers[w] IN
    /\ wk.pc = "loop"
    /\ wk.raw = <<>>
    /\ runs' = [r \in 1..Len(runs) |->
          IF r = wk.run
          THEN [runs[r] EXCEPT !.status = "success", !.finished_at = now,
                               !.jobs_found = wk.jobs_found, !.jobs_new = wk.jobs_new,
                               !.jobs_updated = wk.jobs_updated]
          ELSE IF runs[r].source_id = wk.source
               THEN [runs[r] EXCEPT !.finished_at = now]
               ELSE runs[r]]
    /\ sources' = [sources EXCEPT ![wk.source] =
          [@ EXCEPT !.last_scraped_at = now, !.last_success_at = now,
                    !.last_job_count = wk.jobs_found, !.consecutive_failures = 0]]
    /\ workers' = [workers EXCEPT ![w] = IdleWorker]
    /\ UNCHANGED <<now, postings, queue, response>>

(* run() returned: the Run and the Source are updated and committed.  An   *)
(* attribute the session still holds is written only if its value changes. *)
FinalizeSuccess(w) ==
    LET wk == workers[w]
        same(f, v) == wk.src[f] = v
    IN
    /\ wk.pc = "loop"
    /\ wk.raw = <<>>
    /\ runs' = [runs EXCEPT ![wk.run] =
          [@ EXCEPT !.status = "success", !.finished_at = now,
                    !.jobs_found = wk.jobs_found, !.jobs_new = wk.jobs_new,
                    !.jobs_updated = wk.jobs_updated]]
    /\ sources' = [sources EXCEPT ![wk.source] =
          [@ EXCEPT !.last_scraped_at = now, !.last_success_at = now,
                    !.last_job_count =
                        IF same("last_job_count", wk.jobs_found) THEN @ ELSE wk.jobs_found,
                    !.consecutive_failures =
                        IF same("consecutive_failures", 0) THEN @ ELSE 0]]
    /\ workers' = [workers EXCEPT ![w] = IdleWorker]
    /\ UNCHANGED <<now, postings, queue, response>>

(* The worker process dies in the middle of a cycle.  Killed at the hard   *)
(* time limit the task is not delivered again; lost otherwise, it goes     *)
(* back to the queue (acks_late with reject_on_worker_lost).  Nothing of   *)
(* the open transaction is committed.                                      *)
WorkerLost(w, requeue) ==
    LET s == workers[w].source IN
    /\ workers[w].pc \in {"fetch", "loop", "save"}
    /\ workers' = [workers EXCEPT ![w] = IdleWorker]
    /\ queue' = [queue EXCEPT ![s] =
          IF requeue /\ @ < MaxQueue THEN @ + 1 ELSE @]
    /\ UNCHANGED <<now, sources, runs, postings, response>>

-----------------------------------------------------------------------------
(* BaseScraper used directly: a scraper built for a fresh Run, with or     *)
(* without its run_id, whose run() and detect_removals() are called.       *)

(* A Run is created dt ticks from now, a scraper is built for it and its   *)
(* run() is called; scrape() returns the listings.  (The clock of          *)
(* SpecScraper advances between cycles only: what the code compares is a   *)
(* posting's last_seen_at with a Run's started_at.)  A worker whose last   *)
(* scraper has returned from run() is free for the next one.               *)
ScraperFree(w) ==
    /\ workers[w].pc \in {"idle", "ran"}
    /\ \A v \in Workers : workers[v].pc \in {"idle", "ran"} => v >= w

NewScraper(w, s, with_run_id, dt, listings) ==
    /\ ScraperFree(w)
    /\ Len(runs) < MaxRuns
    /\ now + dt <= MaxTime
    /\ dt > 0 => \A v \in Workers : workers[v].pc # "save"
    /\ now' = now + dt
    /\ runs' = Append(runs, NewRun(s, now'))
    /\ workers' = [workers EXCEPT ![w] =
          [IdleWorker EXCEPT !.pc = "loop", !.source = s, !.run = Len(runs) + 1,
                             !.run_id = IF with_run_id THEN Len(runs) + 1 ELSE NoRun,
                             !.src = Held(s), !.raw = listings,
                             !.jobs_found = Len(listings)]]
    /\ UNCHANGED <<sources, postings, queue, response>>

RunReturns(w) ==
    /\ workers[w].pc = "loop"
    /\ workers[w].raw = <<>>
    /\ workers' = [workers EXCEPT ![w] = [@ EXCEPT !.pc = "ran"]]
    /\ UNCHANGED <<now, sources, runs, postings, queue, response>>

(* _save_posting(data) is called on the scraper as run() calls it for a    *)
(* single listing, up to and including the SELECT by url_hash.             *)
CallSavePosting(w, d) ==
    LET i == FindByHash(HashUrl(d.application_url)) IN
    /\ workers[w].pc = "loop"
    /\ workers[w].raw = <<>>
    /\ workers' = [workers EXCEPT ![w] =
          [@ EXCEPT !.pc = "save", !.raw = <<d>>, !.data = d, !.loaded = i,
                    !.snap = IF i = 0 THEN NoRow ELSE postings[i],
                    !.jobs_found = 1, !.jobs_new = 0, !.jobs_updated = 0]]
    /\ UNCHANGED <<now, sources, runs, postings, queue, response>>

(* The WHERE clause of detect_removals; a comparison with a NULL           *)
(* last_seen_run_id is not true in SQL.                                    *)
RemovalSelected(p, s, run_id, run_started_at) ==
    /\ p.source_id = s
    /\ p.is_active
    /\ p.last_seen_run_id # NoRun /\ p.last_seen_run_id # run_id
    /\ p.last_seen_at < run_started_at

Removed(p, s, run_id, run_started_at, t) ==
    IF run_id # NoRun /\ RemovalSelected(p, s, run_id, run_started_at)
    THEN [p EXCEPT !.is_active = FALSE, !.removal_detected_at = t]
    ELSE p

(* detect_removals(run_started_at) with the start time of the scraper's    *)
(* Run: one UPDATE and its commit.                                         *)
DetectRemovals(w) ==
    LET wk == workers[w] IN
    /\ wk.pc = "ran"
    /\ postings' = [i \in RowIds |->
          Removed(postings[i], wk.source, wk.run_id, runs[wk.run].started_at, now)]
    /\ workers' = [workers EXCEPT ![w] = [@ EXCEPT !.src = Expired]]
    /\ UNCHANGED <<now, sources, runs, queue, response>>

-----------------------------------------------------------------------------
(* mark_stale_postings: one UPDATE of the active postings last seen before *)
(* the cutoff, now minus 14 days, which lies at some tick not after now.   *)
(* The UPDATE sets is_active only.                                         *)

MarkStalePostings(cutoff) ==
    /\ cutoff \in 0..now
    /\ \A w \in Workers : workers[w].pc # "save"
    /\ \E i \in RowIds : postings[i].is_active /\ postings[i].last_seen_at < cutoff
    /\ postings' = [i \in RowIds |->
          IF postings[i].is_active /\ postings[i].last_seen_at < cutoff
          THEN [postings[i] EXCEPT !.is_active = FALSE]
          ELSE postings[i]]
    /\ UNCHANGED <<now, sources, runs, queue, workers, response>>

-----------------------------------------------------------------------------
(* geocode_pending_jobs, one job of the batch: a pending active posting    *)
(* gets its geocode_status.                                                *)

GeocodePendingJob(i, status) ==
    /\ postings[i].geocode_status = "pending"
    /\ postings[i].is_active
    /\ postings' = [postings EXCEPT ![i] = [@ EXCEPT !.geocode_status = status]]
    /\ UNCHANGED <<now, sources, runs, queue, workers, response>>

-----------------------------------------------------------------------------
(* The specifications.                                                     *)

SaveSteps(w) ==
    \/ SaveQuery(w)
    \/ SaveCommitExisting(w)
    \/ SaveCommitNew(w)
    \/ SaveCommitConflict(w)

Next ==
    \/ Tick
    \/ DispatchDueScrapes
    \/ \E w \in Workers, s \in Sources : ScrapeSourceStart(w, s)
    \/ \E w \in Workers : NoAdapter(w)
    \/ \E w \in Workers, len \in ErrLens : ScrapeRaises(w, len)
    \/ \E w \in Workers, l \in FetchResults : ScrapeReturns(w, l)
    \/ \E w \in Workers : NormalizeRaises(w)
    \/ \E w \in Workers : SaveSteps(w)
    \/ \E w \in Workers : FinalizeSuccess(w)

Spec == Init /\ [][Next]_vars

NextScraper ==
    \/ \E w \in Workers, s \in Sources, b \in BOOLEAN, dt \in {0, 1} :
          \E l \in ScraperResults[s] : NewScraper(w, s, b, dt, l)
    \/ \E w \in Workers : SaveSteps(w)
    \/ \E w \in Workers : RunReturns(w)
    \/ \E w \in Workers : DetectRemovals(w)

SpecScraper == Init /\ [][NextScraper]_vars

(* One scraper on Source s1 whose _save_posting is called with any listing *)
(* of RichData, any number of times, while the geocoder works.             *)
NextSave ==
    \/ NewScraper(1, "s1", TRUE, 0, <<>>)
    \/ \E d \in RichData : CallSavePosting(1, d)
    \/ SaveCommitExisting(1)
    \/ SaveCommitNew(1)
    \/ \E i \in RowIds : workers[1].pc # "save" /\ GeocodePendingJob(i, "success")

SpecSave == Init /\ [][NextSave]_vars

(* The scheduler and the bookkeeping of scrape_source: Sources that an     *)
(* operator created active or inactive, and sites that serve at most one   *)
(* listing.                                                                *)
InitSched ==
    /\ now = 0
    /\ \E a \in [Sources -> BOOLEAN] :
          sources = [s \in Sources |->
                        [NewSource(Platform[s]) EXCEPT !.is_active = a[s]]]
    /\ runs = <<>>
    /\ postings = <<>>
    /\ queue = [s \in Sources |-> 0]
    /\ workers = [w \in Workers |-> IdleWorker]
    /\ response = NoResponse

SchedResults == { <<>>, <<ListingA1>> }

NextSched ==
    \/ Tick
    \/ DispatchDueScrapes
    \/ \E w \in Workers, s \in Sources : ScrapeSourceStart(w, s)
    \/ \E w \in Workers : NoAdapter(w)
    \/ \E w \in Workers, len \in ErrLens : ScrapeRaises(w, len)
    \/ \E w \in Workers : ScrapeTimesOut(w)
    \/ \E w \in Workers, l \in SchedResults : ScrapeReturns(w, l)
    \/ \E w \in Workers : SaveSteps(w)
    \/ \E w \in Workers : FinalizeSuccess(w)
    \/ \E w \in Workers, requeue \in BOOLEAN : WorkerLost(w, requeue)

SpecSched == InitSched /\ [][NextSched]_vars

(* The cycles of Sources of every registered platform, against upstreams   *)
(* in every state.                                                         *)
InitAdapters ==
    /\ now = 0
    /\ \E p \in [Sources -> Registry] :
          sources = [s \in Sources |-> NewSource(p[s])]
    /\ runs = <<>>
    /\ postings = <<>>
    /\ queue = [s \in Sources |-> 0]
    /\ workers = [w \in Workers |-> IdleWorker]
    /\ response = NoResponse

NextAdapters ==
    \/ Tick
    \/ DispatchDueScrapes
    \/ \E w \in Workers, s \in Sources : ScrapeSourceStart(w, s)
    \/ \E w \in Workers, up \in {"ok"} \cup AllFaults : AdapterScrape(w, up)
    \/ \E w \in Workers : SaveSteps(w)
    \/ \E w \in Workers : FinalizeSuccess(w)

SpecAdapters == InitAdapters /\ [][NextAdapters]_vars

(* The scheduler and the cycles with manual triggers through the API.      *)
NextApi ==
    \/ Tick
    \/ DispatchDueScrapes
    \/ \E id \in SourceIds : TriggerScrape(id)
    \/ \E w \in Workers, s \in Sources : ScrapeSourceStart(w, s)
    \/ \E w \in Workers : NoAdapter(w)
    \/ \E w \in Workers, len \in ErrLens : ScrapeRaises(w, len)
    \/ \E w \in Workers : ScrapeReturns(w, <<>>)
    \/ \E w \in Workers : FinalizeSuccess(w)

SpecApi == InitSched /\ [][NextApi]_vars

(* The cycles of the one Source s1 on one worker, one after the other,     *)
(* with the scheduler's scans between them.                                *)
NextScenario ==
    \/ Tick
    \/ DispatchDueScrapes
    \/ ScrapeSourceStart(1, "s1")
    \/ \E l \in ScenarioResults : ScrapeReturns(1, l)
    \/ SaveQuery(1)
    \/ SaveCommitExisting(1)
    \/ SaveCommitNew(1)
    \/ FinalizeSuccess(1)

SpecScenario == Init /\ [][NextScenario]_vars

(* One scraper after the other on Source s1, each built with the id of its *)
(* Run: run() over the site's two listings, either of which may fail in    *)
(* normalize, then detect_removals().                                      *)
NextRemoval ==
    \/ \E dt \in {0, 1} : NewScraper(1, "s1", TRUE, dt, RemovalFetch)
    \/ NormalizeRaises(1)
    \/ SaveQuery(1)
    \/ SaveCommitExisting(1)
    \/ SaveCommitNew(1)
    \/ RunReturns(1)
    \/ DetectRemovals(1)

SpecRemoval == Init /\ [][NextRemoval]_vars

(* The life of the postings of Source s1: scrapers built with the id of    *)
(* their Run, their removal passes, and the stale sweep.                   *)
NextLifecycle ==
    \/ \E dt \in {0, 1}, l \in FetchResults : NewScraper(1, "s1", TRUE, dt, l)
    \/ SaveQuery(1)
    \/ SaveCommitExisting(1)
    \/ SaveCommitNew(1)
    \/ RunReturns(1)
    \/ DetectRemovals(1)
    \/ \E cutoff \in 0..MaxTime : MarkStalePostings(cutoff)

SpecLifecycle == Init /\ [][NextLifecycle]_vars

-----------------------------------------------------------------------------
(* Properties.                                                             *)

(* C1: at most one JobPosting row per url_hash, in every reachable state,  *)
(* whatever the sequence and interleaving of _save_posting calls.          *)
C1_OneRowPerUrlHash ==
    \A i, j \in RowIds : postings[i].url_hash = postings[j].url_hash => i = j

(* Two scrapers of different Sources both found no row for the URL, one    *)
(* has inserted it and the other is about to commit its INSERT.            *)
C1_Witness ==
    \E w \in Workers, i \in RowIds :
        /\ workers[w].pc = "save"
        /\ workers[w].loaded = 0
        /\ postings[i].url_hash = HashUrl(workers[w].data.application_url)
        /\ postings[i].source_id # workers[w].source

(* C2: once scrape_source has finalized a Run as success and the cycle is  *)
(* over, the removal pass of that Run has been executed: every Posting of  *)
(* the Source that was last seen before the Run's start (so not observed   *)
(* by it) is inactive with removal_detected_at set.                        *)
C2_RemovalPassAfterSuccess ==
    \A r \in 1..Len(runs) :
        (runs[r].status = "success" /\ \A w \in Workers : workers[w].run # r) =>
            \A i \in RowIds :
                (/\ postings[i].source_id = runs[r].source_id
                 /\ postings[i].last_seen_at < runs[r].started_at) =>
                    (~postings[i].is_active /\ postings[i].removal_detected_at # NoTime)

(* C3: detect_removals of a scraper built for Run R, started at T, sets    *)
(* is_active = FALSE and removal_detected_at = now on exactly the Postings *)
(* of R's Source that are active, whose last_seen_run_id differs from R    *)
(* and whose last_seen_at is before T; every other Posting and every other *)
(* field is left as it was.                                                *)
C3_RemovalsExactlyTheUnseen ==
    [][\A w \in Workers :
        (DetectRemovals(w) /\ workers[w].run_id # NoRun) =>
            \A i \in RowIds :
                postings'[i] =
                    IF /\ postings[i].source_id = workers[w].source
                       /\ postings[i].is_active
                       /\ postings[i].last_seen_run_id # workers[w].run_id
                       /\ postings[i].last_seen_at < runs[workers[w].run].started_at
                    THEN [postings[i] EXCEPT !.is_active = FALSE,
                                             !.removal_detected_at = now]
                    ELSE postings[i]]_vars

(* C4: the step by which a cycle fails before any upsert (scrape() raised  *)
(* or no adapter is registered) finalizes the cycle's Run as failed with   *)
(* an error message and ends the cycle, and neither that step nor the      *)
(* start of the cycle changes any Posting: no removal pass, no mutation.   *)
C4_FailedCycleLeavesPostings ==
    [][\A w \in Workers :
        /\ (workers[w].pc = "idle" /\ workers'[w].pc = "fetch") => postings' = postings
        /\ (workers[w].pc = "fetch" /\ workers'[w].pc = "idle") =>
              /\ runs[workers[w].run].status = "running"
              /\ runs'[workers[w].run].status = "failed"
              /\ runs'[workers[w].run].finished_at = now
              /\ runs'[workers[w].run].error_message \in 1..ErrLimit
              /\ postings' = postings]_vars

(* A cycle of a Source that has an active Posting has failed with a        *)
(* message cut to the limit.                                               *)
C4_Witness ==
    \E r \in 1..Len(runs), i \in RowIds :
        /\ runs[r].status = "failed"
        /\ runs[r].error_message = ErrLimit
        /\ postings[i].source_id = runs[r].source_id
        /\ postings[i].is_active

C6_SeenByTheCycleRun ==
    [][\A w \in Workers :
        (workers[w].pc = "save" /\ workers'[w].pc = "loop") =>
            \E i \in 1..Len(postings') :
                /\ postings'[i].url_hash = HashUrl(workers[w].data.application_url)
                /\ postings'[i].last_seen_at = now
                /\ postings'[i].last_seen_run_id = workers[w].run]_vars

C8_ChangedPathOverwritesAll ==
    [][\A w \in Workers :
        (/\ SaveCommitExisting(w)
         /\ postings[workers[w].loaded].content_hash #
                HashContent(workers[w].data.title, workers[w].data.description)) =>
            LET i == workers[w].loaded
                d == workers[w].data
            IN
            /\ \A f \in DataKeys : postings'[i][f] = d[f]
            /\ postings'[i].content_hash = HashContent(d.title, d.description)]_vars

(* C9: on the unchanged-content path a canonical field that is non-null on *)
(* the stored Posting keeps its value, whatever the observation carries.   *)
C9_UnchangedPathKeepsSetFields ==
    [][\A w \in Workers :
        (/\ SaveCommitExisting(w)
         /\ postings[workers[w].loaded].content_hash =
                HashContent(workers[w].data.title, workers[w].data.description)) =>
            LET i == workers[w].loaded IN
            \A f \in DataKeys :
                postings[i][f] # NULL => postings'[i][f] = postings[i][f]]_vars

(* An unchanged-content observation carrying another posting_date than the *)
(* one stored has been matched with its row and is being committed.        *)
C9_Witness ==
    \E w \in Workers :
        /\ workers[w].pc = "save"
        /\ workers[w].loaded # 0
        /\ workers[w].snap.content_hash =
                HashContent(workers[w].data.title, workers[w].data.description)
        /\ workers[w].snap.posting_date = "P1"
        /\ workers[w].data.posting_date = "P2"

C11_InsertRaceAppliedAsUpdate ==
    [][\A w \in Workers :
        (workers[w].pc = "save" /\ workers[w].loaded = 0 /\ workers'[w].pc # "save") =>
            /\ workers'[w].pc = "loop"
            /\ \E i \in 1..Len(postings') :
                  /\ postings'[i].url_hash = HashUrl(workers[w].data.application_url)
                  /\ postings'[i].last_seen_at = now
                  /\ workers[w].run_id # NoRun =>
                        postings'[i].last_seen_run_id = workers[w].run_id
                  /\ postings'[i].content_hash =
                        HashContent(workers[w].data.title, workers[w].data.description)]_vars

(* C12: a scan of dispatch_due_scrapes adds one scrape_source task for a   *)
(* Source exactly when the Source is active and was never attempted or its *)
(* interval has elapsed since last_scraped_at, and none for any other      *)
(* Source (a Source that already has MaxQueue tasks waiting gets none in   *)
(* the model).                                                             *)
C12_DispatchExactlyTheDue ==
    [][DispatchDueScrapes =>
        \A s \in Sources :
            queue'[s] =
                IF /\ sources[s].is_active
                   /\ \/ sources[s].last_scraped_at = NoTime
                      \/ now >= sources[s].last_scraped_at + Frequency
                   /\ queue[s] < MaxQueue
                THEN queue[s] + 1
                ELSE queue[s]]_vars

(* A Source attempted before has a task again after its interval elapsed,  *)
(* while an inactive Source, due as well, has none.                        *)
C12_Witness ==
    \E s, t \in Sources :
        /\ sources[s].is_active
        /\ sources[s].last_scraped_at # NoTime
        /\ now >= sources[s].last_scraped_at + Frequency
        /\ queue[s] > 0
        /\ ~sources[t].is_active
        /\ sources[t].last_scraped_at = NoTime
        /\ queue[t] = 0

(* C13: with Source s2 failing in every cycle (no adapter for its          *)
(* platform) and Source s1 never having failed: a scan in which s1 is due  *)
(* enqueues s1 whatever s2's cycles do, every failed cycle of s2 raises    *)
(* its consecutive_failures, which never decreases, and s1's stays 0.      *)
C13_FailingSourceStreakGrows ==
    [][/\ (DispatchDueScrapes /\ sources["s1"].is_active /\ Due("s1")) =>
              queue'["s1"] > 0
       /\ \A w \in Workers :
              NoAdapter(w) =>
                  sources'[workers[w].source].consecutive_failures >
                      sources[workers[w].source].consecutive_failures
       /\ sources'["s2"].consecutive_failures >= sources["s2"].consecutive_failures
       /\ (\A r \in 1..Len(runs') :
              runs'[r].source_id = "s1" => runs'[r].status # "failed") =>
                  sources'["s1"].consecutive_failures = 0]_vars

(* C14: the step that completes a cycle sets the Source's last_scraped_at; *)
(* a successful one also sets last_success_at, makes last_job_count the    *)
(* Run's jobs_found and consecutive_failures 0; a failed one makes         *)
(* consecutive_failures one more than it was, stores an error message of   *)
(* at most 2000 characters on the Run and leaves last_success_at and       *)
(* last_job_count as they were.                                            *)
C14_SourceBookkeeping ==
    [][\A w \in Workers :
        LET s == workers[w].source
            r == workers[w].run
        IN
        /\ FinalizeSuccess(w) =>
              /\ sources'[s].last_scraped_at = now
              /\ sources'[s].last_success_at = now
              /\ sources'[s].last_job_count = runs'[r].jobs_found
              /\ sources'[s].consecutive_failures = 0
        /\ (NoAdapter(w) \/ \E len \in ErrLens : ScrapeRaises(w, len)) =>
              /\ sources'[s].last_scraped_at = now
              /\ sources'[s].consecutive_failures = sources[s].consecutive_failures + 1
              /\ runs'[r].error_message <= ErrLimit
              /\ sources'[s].last_success_at = sources[s].last_success_at
              /\ sources'[s].last_job_count = sources[s].last_job_count]_vars

(* C15: no step changes a Source's is_active, whatever the outcomes of its *)
(* cycles, a missing adapter included; and a scan enqueues every active    *)
(* Source that has failed and whose interval has elapsed since its last    *)
(* attempt.                                                                *)
C15_FailuresNeverDeactivate ==
    [][/\ \A s \in Sources : sources'[s].is_active = sources[s].is_active
       /\ DispatchDueScrapes =>
              \A s \in Sources :
                  (/\ sources[s].is_active
                   /\ sources[s].consecutive_failures > 0
                   /\ now >= sources[s].last_scraped_at + Frequency) =>
                        queue'[s] > 0]_vars

(* A Source without an adapter has failed, is still active and, its        *)
(* interval elapsed, has a task waiting again.                             *)
C15_Witness ==
    \E s \in Sources :
        /\ sources[s].platform \notin Registry
        /\ sources[s].consecutive_failures > 0
        /\ sources[s].is_active
        /\ now >= sources[s].last_scraped_at + Frequency
        /\ queue[s] > 0

C17_TimeoutStatus ==
    [][\A w \in Workers :
        ScrapeTimesOut(w) =>
            /\ runs'[workers[w].run].status = "timeout"
            /\ runs'[workers[w].run].finished_at = now
            /\ postings' = postings]_vars

(* C18: for every registered adapter and every way its upstream is         *)
(* unreachable or blocked, the step in which run() calls scrape() ends the *)
(* cycle: the Run is finalized as failed and the Source's                  *)
(* consecutive_failures grows.                                             *)
C18_UnreachableUpstreamFails ==
    [][\A w \in Workers, up \in AllFaults :
        AdapterScrape(w, up) =>
            /\ runs'[workers[w].run].status = "failed"
            /\ sources'[workers[w].source].consecutive_failures >
                   sources[workers[w].source].consecutive_failures]_vars

(* C19: whatever happens to one listing in the loop of run(), normalize or *)
(* the upsert raising included, the cycle goes on with the listings after  *)
(* it, jobs_found keeps counting every listing fetched, and the cycle ends *)
(* with its Run finalized as success carrying that count.                  *)
C19_ListingFailureIsolated ==
    [][\A w \in Workers :
        LET wk == workers[w] IN
        (wk.pc \in {"loop", "save"} /\ workers'[w] # wk) =>
            IF wk.raw # <<>>
            THEN /\ workers'[w].pc \in {"loop", "save"}
                 /\ workers'[w].run = wk.run
                 /\ workers'[w].jobs_found = wk.jobs_found
                 /\ workers'[w].raw \in {wk.raw, Tail(wk.raw)}
            ELSE /\ runs'[wk.run].status = "success"
                 /\ runs'[wk.run].jobs_found = wk.jobs_found]_vars

(* C20: a manual trigger for an id without a Source or for an inactive     *)
(* Source leaves the queue as it is and answers with an error and no task  *)
(* id; for an active Source, due or not, it adds one scrape_source task of *)
(* that Source (up to MaxQueue waiting tasks) and no other, and answers    *)
(* with the task id.                                                       *)
C20_ManualTrigger ==
    [][\A id \in SourceIds :
        TriggerScrape(id) =>
            IF id \in Sources /\ sources[id].is_active
            THEN /\ \A s \in Sources :
                       queue'[s] = IF s = id /\ queue[s] < MaxQueue
                                   THEN queue[s] + 1 ELSE queue[s]
                 /\ response'.status_code = 200
                 /\ response'.task_id # NULL
            ELSE /\ queue' = queue
                 /\ response'.status_code \in {400, 404}
                 /\ response'.task_id = NULL]_vars

(* The API answered a trigger for a Source with a task id while the Source *)
(* was attempted in this very tick, so is not due, and the task waits.     *)
C20_Witness ==
    \E s \in Sources :
        /\ response = ManualScrapeResponse(s)
        /\ sources[s].is_active
        /\ sources[s].last_scraped_at = now
        /\ ~Due(s)
        /\ queue[s] > 0

(* C21: the scenario of one Source, cycle after cycle.  A scan before the  *)
(* interval has elapsed since the last attempt enqueues nothing for the    *)
(* Source.  When a cycle ends in success, every Posting of the Source it   *)
(* observed is active with removal_detected_at cleared, last_seen_at       *)
(* refreshed, and every Posting last seen before the cycle started is      *)
(* inactive with removal_detected_at set.  A Posting that was inactive and *)
(* is observed again becomes active with the new content and one           *)
(* reactivation more.                                                      *)
C21_DisappearAndComeBack ==
    [][/\ (DispatchDueScrapes /\ sources["s1"].last_scraped_at # NoTime
              /\ now < sources["s1"].last_scraped_at + Frequency) =>
                  queue'["s1"] = queue["s1"]
       /\ FinalizeSuccess(1) =>
              /\ runs'[workers[1].run].status = "success"
              /\ \A i \in RowIds :
                    postings'[i].source_id = workers[1].source =>
                        IF postings'[i].last_seen_at >= runs[workers[1].run].started_at
                        THEN /\ postings'[i].is_active
                             /\ postings'[i].removal_detected_at = NoTime
                        ELSE /\ ~postings'[i].is_active
                             /\ postings'[i].removal_detected_at # NoTime
       /\ (SaveCommitExisting(1) /\ ~workers[1].snap.is_active) =>
              LET e == postings'[workers[1].loaded] IN
              /\ e.is_active
              /\ e.removal_detected_at = NoTime
              /\ e.reactivation_count = workers[1].snap.reactivation_count + 1
              /\ e.content_hash =
                    HashContent(workers[1].data.title, workers[1].data.description)]_vars

(* C22: the removal pass of a Run whose fetch returned a listing never     *)
(* demotes the Posting of that listing, also when the listing was skipped  *)
(* in the loop of run().                                                   *)
C22_FetchedNeverDemoted ==
    [][DetectRemovals(1) =>
        \A i \in RowIds :
            (/\ workers[1].jobs_found = Len(RemovalFetch)
             /\ \E k \in 1..Len(RemovalFetch) :
                   postings[i].url_hash = HashUrl(RemovalFetch[k].application_url)
             /\ postings[i].is_active) =>
                  postings'[i].is_active]_vars

(* C23: in every reachable state a Posting is inactive exactly when its    *)
(* removal_detected_at is set.                                             *)
C23_InactiveIffRemovalTime ==
    \A i \in RowIds :
        (~postings[i].is_active) <=> (postings[i].removal_detected_at # NoTime)


(* C24: on the unchanged-content path _save_posting changes                *)
(* geocode_status and geocode_source only when the campus of the stored    *)
(* Posting was null and has been backfilled by this observation; an        *)
(* observation that backfills only raw_category or posting_date, or        *)
(* nothing, leaves both as they were.                                      *)
C24_RegeocodeOnlyOnCampusBackfill ==
    [][(/\ SaveCommitExisting(1)
        /\ postings[workers[1].loaded].content_hash =
               HashContent(workers[1].data.title, workers[1].data.description)) =>
           LET i == workers[1].loaded IN
           (~ (postings[i].campus = NULL /\ postings'[i].campus # NULL)) =>
               /\ postings'[i].geocode_status = postings[i].geocode_status
               /\ postings'[i].geocode_source = postings[i].geocode_source]_vars


(* The steps of one worker's scrape_source task.  A worker that has taken  *)
(* a task goes on executing it: the pool runs one task per process to its  *)
(* return (prefetch multiplier 1), so a step of the cycle that stays       *)
(* possible is taken.  Nothing obliges the clock, the beat, or the loss of *)
(* a worker to happen.                                                     *)
CycleStep(w) ==
    \/ \E s \in Sources : ScrapeSourceStart(w, s)
    \/ NoAdapter(w)
    \/ \E len \in ErrLens : ScrapeRaises(w, len)
    \/ ScrapeTimesOut(w)
    \/ \E l \in SchedResults : ScrapeReturns(w, l)
    \/ SaveSteps(w)
    \/ FinalizeSuccess(w)

SpecSchedFair ==
    InitSched /\ [][NextSched]_vars /\ \A w \in Workers : WF_vars(CycleStep(w))

(* C25: every Run that scrape_source created eventually leaves the status  *)
(* running, also when the worker executing its cycle is killed at the hard *)
(* time limit or is lost and the task is delivered again.                  *)
C25_RunEventuallyLeavesRunning ==
    \A r \in 1..MaxRuns :
        (Len(runs) >= r /\ runs[r].status = "running")
            ~> (Len(runs) >= r /\ runs[r].status # "running")


(* C26: whatever the interleaving of the cycles of a Source, its           *)
(* consecutive_failures is the number of its failed Runs finalized since   *)
(* its most recent successful Run: at least the failed Runs finalized      *)
(* after the tick of that success and at most those finalized at or after  *)
(* it (Runs finalized in one tick are not ordered by their timestamps);    *)
(* for a Source without a successful Run, the number of its failed Runs.   *)
C26_StreakCountsFailedRuns ==
    \A s \in Sources :
        LET ok     == { r \in 1..Len(runs) :
                          runs[r].source_id = s /\ runs[r].status = "success" }
            last   == IF ok = {} THEN NoTime
                      ELSE CHOOSE t \in { runs[r].finished_at : r \in ok } :
                              \A r \in ok : runs[r].finished_at <= t
            failed == { r \in 1..Len(runs) :
                          runs[r].source_id = s /\ runs[r].status = "failed" }
        IN
        /\ sources[s].consecutive_failures >=
               Cardinality({ r \in failed : runs[r].finished_at > last })
        /\ sources[s].consecutive_failures <=
               Cardinality({ r \in failed : runs[r].finished_at >= last })


C28_OneCyclePerSource ==
    \A s \in Sources :
        queue[s] + Cardinality({ w \in Workers :
                        workers[w].pc # "idle" /\ workers[w].source = s }) <= 1


(* An operator deactivates a Source: the column is_active of its row is    *)
(* set to false in the database.  (The application reads the column and    *)
(* never writes it.)                                                       *)
DeactivateSource(s) ==
    /\ sources[s].is_active
    /\ sources' = [sources EXCEPT ![s].is_active = FALSE]
    /\ UNCHANGED <<now, runs, postings, queue, workers, response>>

(* The scheduler, the manual trigger and the cycles, with an operator who  *)
(* deactivates Sources at any moment.                                      *)
NextOperator ==
    \/ Tick
    \/ DispatchDueScrapes
    \/ \E id \in SourceIds : TriggerScrape(id)
    \/ \E s \in Sources : DeactivateSource(s)
    \/ \E w \in Workers, s \in Sources : ScrapeSourceStart(w, s)
    \/ \E w \in Workers : NoAdapter(w)
    \/ \E w \in Workers, len \in ErrLens : ScrapeRaises(w, len)
    \/ \E w \in Workers, l \in SchedResults : ScrapeReturns(w, l)
    \/ \E w \in Workers : SaveSteps(w)
    \/ \E w \in Workers : FinalizeSuccess(w)

SpecOperator == InitSched /\ [][NextOperator]_vars

(* C29: scrape_source creates no Run for a Source that is inactive at the  *)
(* moment the task starts executing, also when the Source was deactivated  *)
(* after the task had been enqueued: every step that adds a Run adds it    *)
(* for a Source that is active at that step.                               *)
C29_NoRunForInactiveSource ==
    [][Len(runs') > Len(runs) =>
           sources[runs'[Len(runs')].source_id].is_active]_vars


(* C30: detect_removals of a scraper built for Run R demotes an active     *)
(* Posting of R's Source that was last seen before R started and whose     *)
(* last_seen_run_id is unset, as it is on a Posting stored by a scraper    *)
(* that carried no run id.                                                 *)
C30_NullRunIdDemoted ==
    [][\A w \in Workers :
        (DetectRemovals(w) /\ workers[w].run_id # NoRun) =>
            \A i \in RowIds :
                (/\ postings[i].source_id = workers[w].source
                 /\ postings[i].is_active
                 /\ postings[i].last_seen_run_id = NoRun
                 /\ postings[i].last_seen_at < runs[workers[w].run].started_at) =>
                    /\ ~postings'[i].is_active
                    /\ postings'[i].removal_detected_at = now]_vars

====
